---- MODULE Spec2Model ----
(***************************************************************************)
(* dod-vs-abc: a micro-benchmark comparing a columnar filter-and-sum       *)
(* (0_dod-p), a repository driven through find_by_id (1_repository-p) and  *)
(* a layered repository + domain service (3_repository-domain-p-           *)
(* optimized2), plus the minimal update_balance repositories (op1..op3).   *)
(*                                                                         *)
(* Floating point is modelled with a reduced mantissa (MantBits bits):     *)
(* values are integers, and every addition rounds to nearest, ties to      *)
(* even, so that the order of a summation is observable.  Durations and    *)
(* the derived statistics are IEEE values: finite fractions, Inf or NaN.   *)
(***************************************************************************)
EXTENDS Integers, Sequences, FiniteSets, TLC

VARIABLES
    cfg,                 \* the benchmark constants of main
    pc,                  \* pc[v]: position of binary v in its main
    rng,                 \* rng[v]: state of the seeded generator
    user_ids,            \* 0_dod-p: column of ids
    user_balances,       \* 0_dod-p: column of balances
    user_active_flags,   \* 0_dod-p: column of active flags (u8)
    repository,          \* 1_repository-p: VectorUserRepository.users
    service,             \* 3_...: UserService.repository.users
    checksum,            \* checksum[v]
    warm,                \* warm[v]: warm-up invocations made
    timed,               \* timed[v]: timed invocations made
    total_time_seconds,  \* total_time_seconds[v]
    stats,               \* stats[v]: None or Some(derived statistics)
    divisions,           \* divisions[v]: the divisions main has performed
    log,                 \* log[v]: the invocations of the operation, in order
    op1,                 \* minimal/repository-p-op1: HashMap<u32, User>
    op2,                 \* minimal/repository-p-op2: Vec<User>
    op3,                 \* minimal/repository-p-op3: ids and balances columns
    calls,               \* the update_balance calls made so far
    initial              \* the users the minimal repositories were built from

harnessVars == <<cfg, pc, rng, user_ids, user_balances, user_active_flags,
                 repository, service, checksum, warm, timed,
                 total_time_seconds, stats, divisions, log>>
minimalVars == <<op1, op2, op3, calls, initial>>
vars == <<cfg, pc, rng, user_ids, user_balances, user_active_flags,
          repository, service, checksum, warm, timed,
          total_time_seconds, stats, divisions, log, op1, op2, op3, calls,
          initial>>

(***************************************************************************)
(* Bounds of the model.                                                    *)
(***************************************************************************)
MaxElements == 3      \* ELEMENTS_COUNT ranges over 0..MaxElements
MaxWarmup == 1        \* WARMUP_ITERATIONS ranges over 0..MaxWarmup
MaxIterations == 1    \* ITERATIONS ranges over 0..MaxIterations
MaxSeed == 7          \* RANDOM_SEED ranges over 0..MaxSeed
MaxTime == 1          \* an elapsed time is 0..MaxTime clock ticks
RngModulus == 16      \* number of states of the seeded generator
BalanceLimit == 8     \* the exclusive upper end of the balance distribution
MantBits == 3         \* mantissa bits of the modelled floating point
MaxUsers == 2         \* minimal repositories hold 0..MaxUsers users
MaxCalls == 2         \* update_balance calls per run of a minimal repository

Variants == {"dod", "repository", "layered"}
None == <<>>
Some(x) == <<x>>

(***************************************************************************)
(* Floating point.                                                         *)
(***************************************************************************)
RECURSIVE Pow2(_)
Pow2(k) == IF k = 0 THEN 1 ELSE 2 * Pow2(k - 1)

RECURSIVE UnitOf(_, _)
\* the spacing of representable values around magnitude m
UnitOf(m, u) == IF m < Pow2(MantBits) * u THEN u ELSE UnitOf(m, 2 * u)

RoundMagnitude(m) ==
    LET u == UnitOf(m, 1)
        q == m \div u
        r == m % u
    IN  IF 2 * r < u THEN q * u
        ELSE IF 2 * r > u THEN (q + 1) * u
        ELSE IF q % 2 = 0 THEN q * u ELSE (q + 1) * u

Round(x) == IF x >= 0 THEN RoundMagnitude(x) ELSE 0 - RoundMagnitude(0 - x)

FAdd(a, b) == Round(a + b)
FMul(a, b) == Round(a * b)

Fin(n, d) == [kind |-> "fin", num |-> n, den |-> d]
Inf == [kind |-> "inf", num |-> 0, den |-> 1]
NaN == [kind |-> "nan", num |-> 0, den |-> 1]
IsZero(x) == x.kind = "fin" /\ x.num = 0

\* IEEE 754 division of non-negative values: never traps
FDiv(x, y) ==
    IF x.kind = "nan" \/ y.kind = "nan" THEN NaN
    ELSE IF IsZero(y) THEN (IF IsZero(x) THEN NaN ELSE Inf)
    ELSE IF y.kind = "inf" THEN (IF x.kind = "inf" THEN NaN ELSE Fin(0, 1))
    ELSE IF x.kind = "inf" THEN Inf
    ELSE Fin(x.num * y.den, x.den * y.num)

\* IEEE 754 multiplication by a positive finite constant
FScale(x, c) == IF x.kind = "fin" THEN Fin(x.num * c, x.den) ELSE x

(***************************************************************************)
(* The seeded generator.  StdRng is a deterministic stream fixed by the    *)
(* seed; each sample advances it by one step.                              *)
(***************************************************************************)
SeedFromU64(seed) == seed % RngModulus
RngNext(s) == (5 * s + 3) % RngModulus

\* rng.sample(Uniform::new(0.0, 1000.0)): a balance in [0, BalanceLimit)
SampleBalance(s) ==
    LET n == RngNext(s) IN [value |-> (n * BalanceLimit) \div RngModulus, rng |-> n]

\* rng.sample(Bernoulli::new(0.6)): TRUE with probability 6/10
SampleActive(s) ==
    LET n == RngNext(s) IN [value |-> n * 10 < 6 * RngModulus, rng |-> n]

User(id, balance, active) == [id |-> id, balance |-> balance, active |-> active]

(***************************************************************************)
(* 0_dod-p: columns, a UsersView over them, the branchless scan.           *)
(***************************************************************************)
RECURSIVE DodGenerateLoop(_, _, _)
DodGenerateLoop(i, n, st) ==
    IF i >= n THEN st
    ELSE LET b == SampleBalance(st.rng)
             a == SampleActive(b.rng)
         IN  DodGenerateLoop(i + 1, n,
                 [rng |-> a.rng,
                  ids |-> Append(st.ids, i),
                  balances |-> Append(st.balances, b.value),
                  flags |-> Append(st.flags, IF a.value THEN 1 ELSE 0)])

DodGenerateColumns(n, seed) ==
    DodGenerateLoop(0, n, [rng |-> SeedFromU64(seed), ids |-> <<>>,
                           balances |-> <<>>, flags |-> <<>>])

UsersView(ids, balances, active, count) ==
    [ids |-> ids, balances |-> balances, active |-> active, count |-> count]

\* mutant: the threshold compared strictly
DodTakeValueStrict(active_flag, balance_value, threshold_balance) ==
    IF active_flag # 0 /\ balance_value > threshold_balance THEN 1 ELSE 0

DodTakeValue(active_flag, balance_value, threshold_balance) ==
    IF active_flag # 0 /\ balance_value >= threshold_balance THEN 1 ELSE 0

RECURSIVE DodSumLoop(_, _, _, _)
\* Rust index i is position i + 1 of the column
DodSumLoop(users_view, threshold_balance, i, accumulated_balance) ==
    IF i >= users_view.count THEN accumulated_balance
    ELSE LET balance_value == users_view.balances[i + 1]
             take_value == DodTakeValue(users_view.active[i + 1], balance_value,
                                        threshold_balance)
         IN  DodSumLoop(users_view, threshold_balance, i + 1,
                        FAdd(accumulated_balance, FMul(balance_value, take_value)))

DodSumActiveBalances(users_view, minimum_balance) ==
    DodSumLoop(users_view, minimum_balance, 0, 0)

(***************************************************************************)
(* 1_repository-p: owned users behind the repository trait, aggregated by  *)
(* an id-counting loop of find_by_id.                                      *)
(***************************************************************************)
RECURSIVE RepoGenerateLoop(_, _, _)
RepoGenerateLoop(i, n, st) ==
    IF i >= n THEN st
    ELSE LET b == SampleBalance(st.rng)
             a == SampleActive(b.rng)
         IN  RepoGenerateLoop(i + 1, n,
                 [rng |-> a.rng, users |-> Append(st.users, User(i, b.value, a.value))])

RECURSIVE RepoGenerateLoopFlagFirst(_, _, _)
RepoGenerateLoopFlagFirst(i, n, st) ==
    IF i >= n THEN st
    ELSE LET a == SampleActive(st.rng)
             b == SampleBalance(a.rng)
         IN  RepoGenerateLoopFlagFirst(i + 1, n,
                 [rng |-> b.rng, users |-> Append(st.users, User(i, b.value, a.value))])

\* mutant: the active flag drawn before the balance
RepoGenerateUsersFlagFirst(n, seed) ==
    RepoGenerateLoopFlagFirst(0, n, [rng |-> SeedFromU64(seed), users |-> <<>>])

RepoGenerateUsers(n, seed) ==
    RepoGenerateLoop(0, n, [rng |-> SeedFromU64(seed), users |-> <<>>])

SetMin(S) == CHOOSE x \in S : \A y \in S : x <= y

\* mutant: ids taken to be one-based
RepoFindByIdOneBased(users, id) ==
    LET hits == {k \in 1..Len(users) : users[k].id = id + 1}
    IN  IF hits = {} THEN None ELSE Some(users[CHOOSE x \in hits : \A y \in hits : x <= y])

\* users.iter().find(|user| user.id == id): the first match, or None
RepoFindById(users, id) ==
    LET hits == {k \in 1..Len(users) : users[k].id = id}
    IN  IF hits = {} THEN None ELSE Some(users[SetMin(hits)])

RepoCount(users) == Len(users)

RepoQualifies(user, minimum_balance) ==
    user.active /\ user.balance >= minimum_balance

\* the body of the loop: if let Some(user) = ... { if qualifies { += } }
RepoAccumulate(accumulated_balance, found, minimum_balance) ==
    IF found # None
    THEN IF RepoQualifies(found[1], minimum_balance)
         THEN FAdd(accumulated_balance, found[1].balance)
         ELSE accumulated_balance
    ELSE accumulated_balance

RECURSIVE RepoSumLoop(_, _, _, _)
\* st.lookups records each find_by_id the loop makes and what it returned
RepoSumLoop(users, minimum_balance, i, st) ==
    IF i >= RepoCount(users) THEN st
    ELSE LET found == RepoFindById(users, i)
         IN  RepoSumLoop(users, minimum_balance, i + 1,
                 [acc |-> RepoAccumulate(st.acc, found, minimum_balance),
                  lookups |-> Append(st.lookups, [id |-> i, found |-> found])])

RepoSumActiveBalances(users, minimum_balance) ==
    RepoSumLoop(users, minimum_balance, 0, [acc |-> 0, lookups |-> <<>>])

(***************************************************************************)
(* 3_repository-domain-p-optimized2: find_all, filtered by the service's   *)
(* rule, mapped to balances, summed.                                       *)
(***************************************************************************)
RECURSIVE LayeredGenerateLoop(_, _, _)
LayeredGenerateLoop(i, n, st) ==
    IF i >= n THEN st
    ELSE LET b == SampleBalance(st.rng)
             a == SampleActive(b.rng)
         IN  LayeredGenerateLoop(i + 1, n,
                 [rng |-> a.rng, users |-> Append(st.users, User(i, b.value, a.value))])

LayeredGenerateUsers(n, seed) ==
    LayeredGenerateLoop(0, n, [rng |-> SeedFromU64(seed), users |-> <<>>])

FindAll(users) == users

\* mutant: the active flag forgotten
QualifiesForSumAnyUser(user, minimum_balance) ==
    user.balance >= minimum_balance

QualifiesForSum(user, minimum_balance) ==
    user.active /\ user.balance >= minimum_balance

RECURSIVE IterSum(_, _, _)
\* Iterator::sum for f32: a left fold of + over the items, from 0.0
IterSum(items, k, acc) ==
    IF k > Len(items) THEN acc ELSE IterSum(items, k + 1, FAdd(acc, items[k]))

ServiceSumActiveBalances(users, minimum_balance) ==
    LET kept == SelectSeq(FindAll(users), LAMBDA user : QualifiesForSum(user, minimum_balance))
        mapped == [k \in 1..Len(kept) |-> kept[k].balance]
    IN  IterSum(mapped, 1, 0)

LayeredSumActiveBalances(users, minimum_balance) ==
    ServiceSumActiveBalances(users, minimum_balance)

(***************************************************************************)
(* main of each binary: generate, warm up, measure, derive statistics.     *)
(***************************************************************************)
Configs ==
    [ElementCount : 0..MaxElements,
     MinimumBalance : 0..BalanceLimit,
     RandomSeed : 0..MaxSeed,
     WarmupIterations : 0..MaxWarmup,
     Iterations : 0..MaxIterations]

\* the closure main hands to the loops: the operation bound to the storage
\* of binary v and to MINIMUM_BALANCE
Invoke(v) ==
    IF v = "dod"
    THEN [result |-> DodSumActiveBalances(
                         UsersView(user_ids, user_balances, user_active_flags,
                                   cfg.ElementCount),
                         cfg.MinimumBalance),
          lookups |-> <<>>]
    ELSE IF v = "repository"
    THEN LET r == RepoSumActiveBalances(repository, cfg.MinimumBalance)
         IN  [result |-> r.acc, lookups |-> r.lookups]
    ELSE [result |-> LayeredSumActiveBalances(service, cfg.MinimumBalance),
          lookups |-> <<>>]

Call(phase, r, retained) ==
    [phase |-> phase, result |-> r.result, lookups |-> r.lookups, retained |-> retained]

\* mutant: one warm-up invocation too many
WarmupContinuesInclusive(v) == warm[v] <= cfg.WarmupIterations

WarmupContinues(v) == warm[v] < cfg.WarmupIterations
MeasureContinues(v) == timed[v] < cfg.Iterations

\* where main stands: which step of binary v comes next
AtGenerate(v) == pc[v] = "generate"
AtWarmupCall(v) == pc[v] = "warmup" /\ WarmupContinues(v)
AtMeasureStart(v) == pc[v] = "warmup" /\ ~WarmupContinues(v)
AtMeasureCall(v) == pc[v] = "measure" /\ MeasureContinues(v)
AtMeasureElapsed(v) == pc[v] = "measure" /\ ~MeasureContinues(v)
AtStatistics(v) == pc[v] = "stats"

AfterGenerate(v) ==
    /\ pc' = [pc EXCEPT ![v] = "warmup"]
    /\ UNCHANGED <<cfg, checksum, warm, timed, total_time_seconds, stats,
                   divisions, log>>
    /\ UNCHANGED minimalVars

DodGenerate ==
    /\ AtGenerate("dod")
    /\ LET g == DodGenerateColumns(cfg.ElementCount, cfg.RandomSeed)
       IN  /\ user_ids' = g.ids
           /\ user_balances' = g.balances
           /\ user_active_flags' = g.flags
           /\ rng' = [rng EXCEPT !["dod"] = g.rng]
    /\ UNCHANGED <<repository, service>>
    /\ AfterGenerate("dod")

RepoGenerate ==
    /\ AtGenerate("repository")
    /\ LET g == RepoGenerateUsers(cfg.ElementCount, cfg.RandomSeed)
       IN  /\ repository' = g.users
           /\ rng' = [rng EXCEPT !["repository"] = g.rng]
    /\ UNCHANGED <<user_ids, user_balances, user_active_flags, service>>
    /\ AfterGenerate("repository")

LayeredGenerate ==
    /\ AtGenerate("layered")
    /\ LET g == LayeredGenerateUsers(cfg.ElementCount, cfg.RandomSeed)
       IN  /\ service' = g.users
           /\ rng' = [rng EXCEPT !["layered"] = g.rng]
    /\ UNCHANGED <<user_ids, user_balances, user_active_flags, repository>>
    /\ AfterGenerate("layered")

\* mutant: the invocation consumes the storage it sums
WarmupDraining(v) ==
    /\ pc[v] = "warmup"
    /\ warm[v] < cfg.WarmupIterations
    /\ LET r == Invoke(v)
       IN  /\ checksum' = [checksum EXCEPT ![v] = r.result]
           /\ log' = [log EXCEPT ![v] = Append(@, Call("warmup", r, TRUE))]
    /\ warm' = [warm EXCEPT ![v] = @ + 1]
    /\ user_balances' = [k \in 1..Len(user_balances) |-> 0]
    /\ repository' = <<>>
    /\ service' = <<>>
    /\ UNCHANGED <<cfg, pc, rng, user_ids, user_active_flags,
                   timed, total_time_seconds, stats, divisions>>
    /\ UNCHANGED minimalVars

\* for _ in 0..WARMUP_ITERATIONS { checksum = sum_active_balances(..) }
Warmup(v) ==
    /\ AtWarmupCall(v)
    /\ LET r == Invoke(v)
       IN  /\ checksum' = [checksum EXCEPT ![v] = r.result]
           /\ log' = [log EXCEPT ![v] = Append(@, Call("warmup", r, TRUE))]
    /\ warm' = [warm EXCEPT ![v] = @ + 1]
    /\ UNCHANGED <<cfg, pc, rng, user_ids, user_balances, user_active_flags,
                   repository, service, timed, total_time_seconds, stats, divisions>>
    /\ UNCHANGED minimalVars

\* the warm-up loop is exhausted: measure_execution_time takes its start
MeasureStart(v) ==
    /\ AtMeasureStart(v)
    /\ pc' = [pc EXCEPT ![v] = "measure"]
    /\ UNCHANGED <<cfg, rng, user_ids, user_balances, user_active_flags,
                   repository, service, checksum, warm, timed,
                   total_time_seconds, stats, divisions, log>>
    /\ UNCHANGED minimalVars

\* for _ in 0..iterations { let _ = f(); }
MeasureIteration(v) ==
    /\ AtMeasureCall(v)
    /\ LET r == Invoke(v)
       IN  log' = [log EXCEPT ![v] = Append(@, Call("timed", r, FALSE))]
    /\ timed' = [timed EXCEPT ![v] = @ + 1]
    /\ UNCHANGED <<cfg, pc, rng, user_ids, user_balances, user_active_flags,
                   repository, service, checksum, warm, total_time_seconds,
                   stats, divisions>>
    /\ UNCHANGED minimalVars

\* start.elapsed().as_secs_f64(): whatever the clock says, zero included
MeasureElapsed(v) ==
    /\ AtMeasureElapsed(v)
    /\ \E t \in 0..MaxTime :
          total_time_seconds' = [total_time_seconds EXCEPT ![v] = Fin(t, 1)]
    /\ pc' = [pc EXCEPT ![v] = "stats"]
    /\ UNCHANGED <<cfg, rng, user_ids, user_balances, user_active_flags,
                   repository, service, checksum, warm, timed, stats,
                   divisions, log>>
    /\ UNCHANGED minimalVars

NanosPerSecond == 1000000000

Division(x, y) == [dividend |-> x, divisor |-> y]

\* the three derived statistics, then the report of checksum and statistics
Statistics(v) ==
    /\ AtStatistics(v)
    /\ LET iterations == Fin(cfg.Iterations, 1)
           elements == Fin(cfg.ElementCount, 1)
           average_time_seconds == FDiv(total_time_seconds[v], iterations)
           elements_per_second == FDiv(elements, average_time_seconds)
           nanoseconds == FScale(average_time_seconds, NanosPerSecond)
           nanoseconds_per_element == FDiv(nanoseconds, elements)
       IN  /\ stats' = [stats EXCEPT ![v] =
                  Some([checksum |-> checksum[v],
                        total_time_seconds |-> total_time_seconds[v],
                        average_time_seconds |-> average_time_seconds,
                        elements_per_second |-> elements_per_second,
                        nanoseconds_per_element |-> nanoseconds_per_element])]
           /\ divisions' = [divisions EXCEPT ![v] =
                  <<Division(total_time_seconds[v], iterations),
                    Division(elements, average_time_seconds),
                    Division(nanoseconds, elements)>>]
    /\ pc' = [pc EXCEPT ![v] = "done"]
    /\ UNCHANGED <<cfg, rng, user_ids, user_balances, user_active_flags,
                   repository, service, checksum, warm, timed,
                   total_time_seconds, log>>
    /\ UNCHANGED minimalVars

Step(v) ==
    \/ Warmup(v)
    \/ MeasureStart(v)
    \/ MeasureIteration(v)
    \/ MeasureElapsed(v)
    \/ Statistics(v)

Next ==
    \/ DodGenerate
    \/ RepoGenerate
    \/ LayeredGenerate
    \/ \E v \in Variants : Step(v)

HarnessStart(running) ==
    /\ pc = [v \in Variants |-> IF v \in running THEN "generate" ELSE "idle"]
    /\ rng = [v \in Variants |-> 0]
    /\ user_ids = <<>>
    /\ user_balances = <<>>
    /\ user_active_flags = <<>>
    /\ repository = <<>>
    /\ service = <<>>
    /\ checksum = [v \in Variants |-> 0]
    /\ warm = [v \in Variants |-> 0]
    /\ timed = [v \in Variants |-> 0]
    /\ total_time_seconds = [v \in Variants |-> Fin(0, 1)]
    /\ stats = [v \in Variants |-> None]
    /\ divisions = [v \in Variants |-> <<>>]
    /\ log = [v \in Variants |-> <<>>]

MinimalIdle ==
    /\ op1 = <<>>
    /\ op2 = <<>>
    /\ op3 = [ids |-> <<>>, balances |-> <<>>]
    /\ calls = <<>>
    /\ initial = [count |-> 0, balance |-> 0]

\* one run of one of the three binaries
Init ==
    /\ cfg \in Configs
    /\ \E v \in Variants : HarnessStart({v})
    /\ MinimalIdle

Spec == Init /\ [][Next]_vars

\* the three binaries run over the same constants, one warm-up and one
\* timed invocation each
SuiteInit ==
    /\ cfg \in Configs
    /\ HarnessStart(Variants)
    /\ cfg.WarmupIterations = 1
    /\ cfg.Iterations = 1
    /\ MinimalIdle

SuiteSpec == SuiteInit /\ [][Next]_vars

(***************************************************************************)
(* minimal/repository-p-op1..op3: update_balance over a HashMap, over a    *)
(* Vec indexed by id, and over columns.  A driver makes the same call on   *)
(* each of the three repositories.                                         *)
(***************************************************************************)
\* main builds every user with balance 100.0 and adds 1.0 to each; the
\* repositories take any balance and any delta, drawn here from values the
\* modelled floating point represents (and some sums of which it rounds)
InitialBalances == {0, 6, 7}
Deltas == {0 - 1, 1, 3}

MinimalUser(id, balance) == [id |-> id, balance |-> balance]

\* (0..N).map(|i| (i, User { id: i, balance })).collect()
Op1New(n, balance) == [i \in 0..(n - 1) |-> MinimalUser(i, balance)]

\* mutant: the balance overwritten instead of incremented
Op1UpdateBalanceAssign(users, id, delta) ==
    IF id \in DOMAIN users
    THEN [users EXCEPT ![id].balance = delta]
    ELSE users

Op1UpdateBalance(users, id, delta) ==
    IF id \in DOMAIN users
    THEN [users EXCEPT ![id].balance = FAdd(@, delta)]
    ELSE users

\* (0..N).map(|i| User { id: i, balance }).collect()
Op2New(n, balance) == [k \in 1..n |-> MinimalUser(k - 1, balance)]

\* users.get_mut(id as usize): Rust index id is position id + 1
Op2UpdateBalance(users, id, delta) ==
    IF id < Len(users)
    THEN [users EXCEPT ![id + 1].balance = FAdd(@, delta)]
    ELSE users

Op3New(users) ==
    [ids |-> [k \in 1..Len(users) |-> users[k].id],
     balances |-> [k \in 1..Len(users) |-> users[k].balance]]

Op3UpdateBalance(repo, id, delta) ==
    IF id < Len(repo.balances)
    THEN [repo EXCEPT !.balances[id + 1] = FAdd(@, delta)]
    ELSE repo

Op3GetUser(repo, id) ==
    IF id < Len(repo.balances)
    THEN Some(MinimalUser(id, repo.balances[id + 1]))
    ELSE None

HarnessIdle ==
    /\ cfg = [ElementCount |-> 0, MinimumBalance |-> 0, RandomSeed |-> 0,
              WarmupIterations |-> 0, Iterations |-> 0]
    /\ HarnessStart({})

MinimalInit ==
    /\ HarnessIdle
    /\ \E n \in 0..MaxUsers, b \in InitialBalances :
          /\ initial = [count |-> n, balance |-> b]
          /\ op1 = Op1New(n, b)
          /\ op2 = Op2New(n, b)
          /\ op3 = Op3New(Op2New(n, b))
    /\ calls = <<>>

UpdateBalance(id, delta) ==
    /\ Len(calls) < MaxCalls
    /\ op1' = Op1UpdateBalance(op1, id, delta)
    /\ op2' = Op2UpdateBalance(op2, id, delta)
    /\ op3' = Op3UpdateBalance(op3, id, delta)
    /\ calls' = Append(calls, [id |-> id, delta |-> delta])
    /\ UNCHANGED initial
    /\ UNCHANGED harnessVars

MinimalNext == \E id \in 0..MaxUsers, delta \in Deltas : UpdateBalance(id, delta)

MinimalSpec == MinimalInit /\ [][MinimalNext]_vars

(***************************************************************************)
(* Properties.                                                             *)
(***************************************************************************)
Generated(v) == pc[v] \in {"warmup", "measure", "stats", "done"}

\* the records binary v holds, whatever their layout
DatasetOf(v) ==
    IF v = "dod"
    THEN [k \in 1..Len(user_ids) |->
              User(user_ids[k], user_balances[k], user_active_flags[k] # 0)]
    ELSE IF v = "repository" THEN repository
    ELSE service

RECURSIVE ExpectedSumUpTo(_, _, _)
\* the f32 accumulation, in id order, of the balances of the first k records
\* that are active and at or above the threshold
ExpectedSumUpTo(records, minimum_balance, k) ==
    IF k = 0 THEN 0
    ELSE LET before == ExpectedSumUpTo(records, minimum_balance, k - 1)
         IN  IF records[k].active /\ records[k].balance >= minimum_balance
             THEN FAdd(before, records[k].balance)
             ELSE before

ExpectedSum(records, minimum_balance) ==
    ExpectedSumUpTo(records, minimum_balance, Len(records))

\* C1: every invocation of sum_active_balances, in each of the three
\* variants, returns the sum (accumulated in f32, in id order) of the balances
\* of the records that are active and whose balance is at least the
\* threshold; a single record contributes its balance when it is active and
\* balance >= threshold (equality included) and zero otherwise; an empty
\* dataset gives 0.
C1_SumOfQualifyingBalances ==
    \A v \in Variants : \A k \in 1..Len(log[v]) :
        LET records == DatasetOf(v)
            result == log[v][k].result
        IN  /\ result = ExpectedSum(records, cfg.MinimumBalance)
            /\ Len(records) = 0 => result = 0
            /\ Len(records) = 1 =>
                   result = IF records[1].active
                               /\ ~(records[1].balance < cfg.MinimumBalance)
                            THEN records[1].balance ELSE 0

\* an invocation over two records: one active and exactly at the threshold,
\* which is counted, and one inactive above the threshold, which is not
C1_Witness ==
    \E v \in Variants :
        /\ Len(log[v]) > 0
        /\ Len(DatasetOf(v)) = 2
        /\ \E i, j \in 1..2 :
              /\ DatasetOf(v)[i].active
              /\ DatasetOf(v)[i].balance = cfg.MinimumBalance
              /\ ~DatasetOf(v)[j].active
              /\ DatasetOf(v)[j].balance > cfg.MinimumBalance
        /\ log[v][1].result = cfg.MinimumBalance
        /\ log[v][1].result > 0

WarmedUp(v) == pc[v] \in {"measure", "stats", "done"}

\* C2: once the three binaries, run over the same constants, have warmed
\* up, their checksums are equal (and so is every result any of them got).
C2_ChecksumsAgree ==
    /\ (\A v \in Variants : WarmedUp(v)) =>
           /\ checksum["dod"] = checksum["repository"]
           /\ checksum["repository"] = checksum["layered"]
    /\ \A v, w \in Variants : \A i \in 1..Len(log[v]), j \in 1..Len(log[w]) :
           log[v][i].result = log[w][j].result

RECURSIVE ExactSum(_, _, _)
\* the same sum in exact arithmetic
ExactSum(records, minimum_balance, k) ==
    IF k = 0 THEN 0
    ELSE ExactSum(records, minimum_balance, k - 1)
         + (IF records[k].active /\ records[k].balance >= minimum_balance
            THEN records[k].balance ELSE 0)

\* the three binaries are done and agree on a checksum that several
\* qualifying records went into and that f32 had to round
C2_Witness ==
    /\ \A v \in Variants : pc[v] = "done"
    /\ checksum["dod"] > 0
    /\ Cardinality({k \in 1..Len(service) :
                       QualifiesForSum(service[k], cfg.MinimumBalance)}) >= 2
    /\ checksum["layered"] # ExactSum(service, cfg.MinimumBalance, Len(service))

Rank(v) ==
    IF pc[v] \in {"idle", "generate"} THEN 0
    ELSE IF pc[v] = "warmup" THEN 1 + warm[v]
    ELSE IF pc[v] = "measure" THEN 2 + cfg.WarmupIterations + timed[v]
    ELSE IF pc[v] = "stats" THEN 3 + cfg.WarmupIterations + cfg.Iterations
    ELSE 4 + cfg.WarmupIterations + cfg.Iterations

C3_Sequenced(v) ==
    /\ Len(log[v]) = warm[v] + timed[v]
    /\ \A k \in 1..Len(log[v]) :
           log[v][k].phase = IF k <= warm[v] THEN "warmup" ELSE "timed"
    /\ warm[v] <= cfg.WarmupIterations
    /\ timed[v] <= cfg.Iterations
    /\ timed[v] > 0 => warm[v] = cfg.WarmupIterations
    /\ pc[v] \in {"stats", "done"} =>
           /\ warm[v] = cfg.WarmupIterations
           /\ timed[v] = cfg.Iterations
    /\ (pc[v] = "done" /\ cfg.WarmupIterations > 0) =>
           /\ stats[v] # None
           /\ stats[v][1].checksum = log[v][cfg.WarmupIterations].result
           /\ log[v][cfg.WarmupIterations].phase = "warmup"
    /\ \/ pc[v] \in {"idle", "done"}
       \/ AtGenerate(v) \/ AtWarmupCall(v) \/ AtMeasureStart(v)
       \/ AtMeasureCall(v) \/ AtMeasureElapsed(v) \/ AtStatistics(v)

\* C3: a run makes exactly WarmupIterations warm-up invocations and then
\* exactly Iterations timed invocations, none of the timed ones before the
\* last warm-up one; the checksum it reports is the result of the last
\* warm-up invocation (when there is one); and it terminates: before the
\* end one of its steps can always be taken (none of them waits for
\* anything but the position in main), and every step takes it strictly
\* closer to the end.
C3_WarmupThenTimedThenDone ==
    /\ [](\A v \in Variants : C3_Sequenced(v))
    /\ [][\A v \in Variants :
             /\ Rank(v)' >= Rank(v)
             /\ Rank(v)' <= 4 + cfg.WarmupIterations + cfg.Iterations
             /\ pc[v] # "idle" => Rank(v)' = Rank(v) + 1]_vars

\* a finished run with both phases non-empty
C3_Witness ==
    \E v \in Variants :
        /\ pc[v] = "done"
        /\ cfg.WarmupIterations > 0
        /\ cfg.Iterations > 0
        /\ Len(log[v]) = cfg.WarmupIterations + cfg.Iterations
        /\ cfg.ElementCount > 0
        /\ checksum[v] > 0

\* C4: with Iterations = 0 the harness rejects the configuration: it derives
\* and reports no statistics.
C4_ZeroIterationsRejected ==
    \A v \in Variants : cfg.Iterations = 0 => (stats[v] = None /\ pc[v] # "done")

\* C5: with ElementCount = 0 (and a valid Iterations) the per-element
\* statistics are derived without any division by a zero divisor.
C5_NoZeroDivisorWhenEmpty ==
    \A v \in Variants :
        (cfg.ElementCount = 0 /\ cfg.Iterations > 0) =>
            \A k \in 2..Len(divisions[v]) : ~IsZero(divisions[v][k].divisor)

RECURSIVE StreamAt(_, _)
\* the state of the seeded generator after j samples
StreamAt(seed, j) ==
    IF j = 0 THEN SeedFromU64(seed) ELSE RngNext(StreamAt(seed, j - 1))

\* the records the seed fixes: record i takes sample 2i+1 of the stream as
\* its balance and sample 2i+2 as its active flag
ExpectedDataset(n, seed) ==
    [k \in 1..n |->
        User(k - 1,
             (StreamAt(seed, 2 * k - 1) * BalanceLimit) \div RngModulus,
             StreamAt(seed, 2 * k) * 10 < 6 * RngModulus)]

\* C6: generation yields exactly ElementCount records, the record at
\* position i has id i, and for each record in id order the balance is drawn
\* from the seeded stream before the active flag; whichever binary generates,
\* the records are the one sequence that (ElementCount, seed) fixes.
C6_GenerationDeterministic ==
    \A v \in Variants : Generated(v) =>
        /\ Len(DatasetOf(v)) = cfg.ElementCount
        /\ \A k \in 1..Len(DatasetOf(v)) : DatasetOf(v)[k].id = k - 1
        /\ DatasetOf(v) = ExpectedDataset(cfg.ElementCount, cfg.RandomSeed)
        /\ rng[v] = StreamAt(cfg.RandomSeed, 2 * cfg.ElementCount)
        /\ v = "dod" =>
              /\ Len(user_ids) = cfg.ElementCount
              /\ Len(user_balances) = cfg.ElementCount
              /\ Len(user_active_flags) = cfg.ElementCount

\* a binary has generated three records whose balances and flags differ
C6_Witness ==
    \E v \in Variants :
        /\ Generated(v)
        /\ Len(DatasetOf(v)) = 3
        /\ DatasetOf(v)[1].balance # DatasetOf(v)[2].balance
        /\ DatasetOf(v)[1].active # DatasetOf(v)[2].active
        /\ DatasetOf(v)[3].id = 2

\* C7: no invocation changes the storage (once generated, the columns and
\* the users stay what generation made them), and every invocation of a run
\* returns the same result.
C7_InvocationsPreserveDataset ==
    /\ [](\A v \in Variants : \A i, j \in 1..Len(log[v]) :
              log[v][i].result = log[v][j].result)
    /\ [][(\A v \in Variants : pc[v] # "generate") =>
              UNCHANGED <<user_ids, user_balances, user_active_flags,
                          repository, service>>]_vars

\* a warm-up and a timed invocation over a non-empty dataset
C7_Witness ==
    \E v \in Variants :
        /\ Len(log[v]) >= 2
        /\ log[v][1].phase = "warmup"
        /\ log[v][Len(log[v])].phase = "timed"
        /\ Len(DatasetOf(v)) > 0
        /\ log[v][1].result > 0

ProbeIds == (0 - 1)..(MaxElements + 1)

\* C8: the id-counting loop looks up exactly the ids 0..count()-1, in
\* order, and each lookup returns the record with that id; a lookup outside
\* that range misses, and a miss leaves the accumulator as it was.
C8_LookupsInRangeAndHit ==
    /\ \A k \in 1..Len(log["repository"]) :
          LET lookups == log["repository"][k].lookups
          IN  /\ Len(lookups) = RepoCount(repository)
              /\ \A j \in 1..Len(lookups) :
                    /\ lookups[j].id = j - 1
                    /\ lookups[j].id < RepoCount(repository)
                    /\ lookups[j].found # None
                    /\ lookups[j].found[1].id = lookups[j].id
                    /\ lookups[j].found[1] = repository[j]
    /\ Generated("repository") =>
          \A id \in ProbeIds :
              (id < 0 \/ id >= RepoCount(repository)) =>
                  /\ RepoFindById(repository, id) = None
                  /\ \A acc \in 0..BalanceLimit :
                        RepoAccumulate(acc, RepoFindById(repository, id),
                                       cfg.MinimumBalance) = acc

\* an invocation that made two lookups, one of a qualifying record
C8_Witness ==
    /\ Len(log["repository"]) > 0
    /\ Len(log["repository"][1].lookups) = 2
    /\ log["repository"][1].result > 0

\* C9: the result of every invocation, warm-up or timed, is consumed.
C9_EveryResultConsumed ==
    \A v \in Variants : \A k \in 1..Len(log[v]) : log[v][k].retained

RECURSIVE ExpectedBalance(_, _)
\* the initial balance with the deltas of the first k calls for id i added,
\* in call order
ExpectedBalance(i, k) ==
    IF k = 0 THEN initial.balance
    ELSE IF calls[k].id = i
         THEN FAdd(ExpectedBalance(i, k - 1), calls[k].delta)
         ELSE ExpectedBalance(i, k - 1)

\* C10: after any sequence of update_balance calls the three minimal
\* repositories hold the same id-to-balance mapping: the users are still
\* ids 0..N-1, the balance of id i is its initial balance plus the deltas
\* applied to i (so a call with id >= N changed nothing), and op3's
\* get_user(i) is Some(id i, that balance) for i < N and None otherwise.
C10_MinimalRepositoriesAgree ==
    /\ DOMAIN op1 = 0..(initial.count - 1)
    /\ Len(op2) = initial.count
    /\ Len(op3.ids) = initial.count
    /\ Len(op3.balances) = initial.count
    /\ \A i \in 0..(initial.count - 1) :
          LET expected == ExpectedBalance(i, Len(calls))
          IN  /\ op1[i] = MinimalUser(i, expected)
              /\ op2[i + 1] = MinimalUser(i, expected)
              /\ op3.ids[i + 1] = i
              /\ op3.balances[i + 1] = expected
              /\ Op3GetUser(op3, i) = Some(MinimalUser(i, expected))
    /\ \A i \in initial.count..(MaxUsers + 1) : Op3GetUser(op3, i) = None

\* two users; one call updated user 1 and one call named an id out of range
C10_Witness ==
    /\ initial.count = 2
    /\ Len(calls) = 2
    /\ calls[1].id = 1
    /\ calls[2].id >= initial.count
    /\ op2[2].balance # initial.balance
    /\ op2[1].balance = initial.balance

====
